---- MODULE Spec2Model ----
(***************************************************************************)
(* Model of generate.py: distributed sampling of images over a process     *)
(* group of world_size workers, followed by the packing of the images into *)
(* one .npz archive by rank 0.                                             *)
(*                                                                         *)
(* Every worker runs main(args).  The state of a worker is its position in *)
(* main (pc) and its locals; the shared state is the process group (the    *)
(* broadcast value in flight, the number of barrier calls of each worker)  *)
(* and the file system (the sample folder, the image files, the archive).  *)
(* The sampler, the decoder and the models are opaque: a call of the       *)
(* sampler is counted, an image is identified by the index in its name.    *)
(***************************************************************************)
EXTENDS Integers, Sequences, FiniteSets, Bags

\* Bounds of the model.
MaxWorld == 3
MaxBatch == 2
MaxRequested == 5
MaxDeleted == 1
\* Bounds of the inputs of the seed derivation and of the batch plan, which
\* are checked on their own over wider ranges.
MaxSeed == 15
MaxPlanWorld == 4
MaxPlanBatch == 10
MaxPlanRequested == 100

\* --global-seed, default=0
DefaultSeed == 0

\* --cfg-scale in halves: 1 is 0.5, 2 is 1.0, 3 is 1.5 (the default).
CfgScales == {1, 2}
Modes == {"ode", "sde", "other"}

VARIABLES
    world_size,     \* dist.get_world_size()
    args,           \* the parsed command line
    pc,             \* pc[rank]: the position of the worker in main
    seed,           \* seed[rank]: the value given to torch.manual_seed
    joined,         \* joined[rank]: init_process_group has been called
    destroyed,      \* destroyed[rank]: destroy_process_group has been called
    skip,           \* skip[rank]: the worker's skip tensor
    bcast,          \* the broadcast of rank 0: <<>>, or <<v>> once v is sent
    barrierCalls,   \* barrierCalls[rank]: dist.barrier() calls made so far
    plan,           \* plan[rank]: total_samples, samples_needed_this_gpu, iterations
    iter,           \* iter[rank]: iterations of the sampling loop completed
    i,              \* i[rank]: position in the batch being saved
    total,          \* total[rank]: the running total of the loop
    samplerCalls,   \* samplerCalls[rank]: calls of the sampler
    files,          \* indices of the .png files in the sample folder
    written,        \* bag of the indices saved by Image.save
    deleted,        \* files removed from the folder by other programs
    dirCreated,     \* os.makedirs(sample_folder_dir) has run
    npzExists,      \* <sample_folder_dir>.npz exists
    npzAtCheck,     \* what rank 0 saw at os.path.exists: <<>>, or <<b>>
    npzCalls,       \* calls of create_npz_from_sample_folder
    samples,        \* the list samples of create_npz_from_sample_folder
    npzSaved,       \* np.savez has run in this run
    abortedAt       \* abortedAt[rank]: the line whose exception ended the worker

vars == <<world_size, args, pc, seed, joined, destroyed, skip, bcast, barrierCalls,
          plan, iter, i, total, samplerCalls, files, written, deleted, dirCreated,
          npzExists, npzAtCheck, npzCalls, samples, npzSaved, abortedAt>>

Workers == 0 .. world_size - 1

----------------------------------------------------------------------------
\* Pure computations of main.

\* seed = (args.global_seed + rank) * dist.get_world_size()//2
\* (* and // have the same precedence and associate to the left)
\* (SeedFloorFirst: the slip of halving before multiplying)
SeedFloorFirst(global_seed, rank, ws) == ((global_seed + rank) \div 2) * ws
Seed(global_seed, rank, ws) == ((global_seed + rank) * ws) \div 2

\* math.ceil(a / b) for b > 0; \div rounds down, as // does
\* (CeilFloor: the slip of rounding down)
CeilFloor(a, b) == a \div b
Ceil(a, b) == -((-a) \div b)

\* global_batch_size = n * dist.get_world_size()
GlobalBatchSize(n, ws) == n * ws

\* total_samples = int(math.ceil(args.num_fid_samples / global_batch_size) * global_batch_size)
TotalSamples(requested, n, ws) ==
    Ceil(requested, GlobalBatchSize(n, ws)) * GlobalBatchSize(n, ws)

\* samples_needed_this_gpu = int(total_samples // dist.get_world_size())
SamplesNeededThisGpu(requested, n, ws) == TotalSamples(requested, n, ws) \div ws

\* iterations = int(samples_needed_this_gpu // n)
Iterations(requested, n, ws) == SamplesNeededThisGpu(requested, n, ws) \div n

\* index = i * dist.get_world_size() + rank + total
\* (SampleIndexNoStride: the slip of dropping the stride)
SampleIndexNoStride(k, rank, tot, ws) == k + rank + tot
SampleIndex(k, rank, tot, ws) == k * ws + rank + tot

\* assert args.cfg_scale >= 1.0
CfgScaleOk(c) == c >= 2

\* assert not args.heun or args.mode == "ode"
\* (HeunUnchecked: the assertion left out)
HeunUnchecked(heun, mode) == TRUE
HeunOk(heun, mode) == ~heun \/ mode = "ode"

\* if args.mode == "sde": ... elif args.mode == "ode": ... else: raise
ModeSupported(mode) == mode \in {"sde", "ode"}

\* create_npz_from_sample_folder(sample_folder_dir, args.num_fid_samples)
\* (NpzNumTotal: the slip of passing total_samples)
NpzNumTotal(a, ws) == TotalSamples(a.num_fid_samples, a.pproc_batch_size, ws)
NpzNum(a, ws) == a.num_fid_samples

----------------------------------------------------------------------------
\* The command lines: every combination of the given values.
Args(seeds, batches, requests) ==
    [global_seed : seeds,
     pproc_batch_size : batches,
     num_fid_samples : requests,
     mode : Modes,
     cfg_scale : CfgScales,
     heun : BOOLEAN]

\* The state in which every worker is at `label` with `calls` barrier calls made
\* and nothing else done yet.
Start(label, calls) ==
    /\ pc = [w \in Workers |-> label]
    /\ seed = [w \in Workers |-> -1]
    /\ joined = [w \in Workers |-> FALSE]
    /\ destroyed = [w \in Workers |-> FALSE]
    /\ skip = [w \in Workers |-> FALSE]
    /\ barrierCalls = [w \in Workers |-> calls]
    /\ plan = [w \in Workers |-> [total_samples |-> 0,
                                  samples_needed_this_gpu |-> 0,
                                  iterations |-> 0]]
    /\ iter = [w \in Workers |-> 0]
    /\ i = [w \in Workers |-> 0]
    /\ total = [w \in Workers |-> 0]
    /\ samplerCalls = [w \in Workers |-> 0]
    /\ files = {}
    /\ written = EmptyBag
    /\ deleted = 0
    /\ npzCalls = 0
    /\ samples = <<>>
    /\ npzSaved = FALSE
    /\ abortedAt = [w \in Workers |-> 0]

\* The launcher has started world_size processes, each at the top of main;
\* the archive of an earlier run may exist.  --num-fid-samples is any int, a
\* negative one included.
Init ==
    /\ world_size \in 1 .. MaxWorld
    /\ args \in Args({DefaultSeed}, 1 .. MaxBatch, -1 .. MaxRequested)
    /\ Start("join", 0)
    /\ bcast = <<>>
    /\ dirCreated = FALSE
    /\ npzExists \in BOOLEAN
    /\ npzAtCheck = <<>>

\* The inputs of the seed derivation: every worker is at the top of main.
SeedInit ==
    /\ world_size \in 1 .. MaxWorld
    /\ args \in Args(0 .. MaxSeed, {1}, {0})
    /\ args.mode = "ode" /\ args.cfg_scale = 2 /\ ~args.heun
    /\ Start("join", 0)
    /\ bcast = <<>>
    /\ dirCreated = FALSE
    /\ npzExists = FALSE
    /\ npzAtCheck = <<>>

\* The inputs of the batch plan: every worker is in the first barrier of a
\* run that is not skipped.
PlanInit ==
    /\ world_size \in 1 .. MaxPlanWorld
    /\ args \in Args({DefaultSeed}, 1 .. MaxPlanBatch,
                     -MaxPlanRequested .. MaxPlanRequested)
    /\ args.mode = "ode" /\ args.cfg_scale = 2 /\ ~args.heun
    /\ Start("wait1", 1)
    /\ bcast = <<FALSE>>
    /\ dirCreated = TRUE
    /\ npzExists = FALSE
    /\ npzAtCheck = <<FALSE>>

\* An uncaught exception at a line of main ends the worker's process.
Abort(w, line) ==
    /\ pc' = [pc EXCEPT ![w] = "aborted"]
    /\ abortedAt' = [abortedAt EXCEPT ![w] = line]

Goto(w, label) ==
    /\ pc' = [pc EXCEPT ![w] = label]
    /\ UNCHANGED abortedAt

\* dist.barrier(): the k-th call of a worker returns once every worker of the
\* group has made its k-th call.
\* (BarrierNoWait: a barrier that does not wait)
BarrierNoWait(w) == TRUE
BarrierReleased(w) == \A v \in Workers : barrierCalls[v] >= barrierCalls[w]

\* dist.broadcast(skip, src=0): what the tensor of a receiving worker holds
\* after the call.
\* (ReceivedLocal: the broadcast left out, the local value kept)
ReceivedLocal(w) == skip[w]
Received(w) == bcast[1]

----------------------------------------------------------------------------
\* Lines 61-67: join the group, derive and set the seed.
Join(w) ==
    /\ pc[w] = "join"
    /\ joined' = [joined EXCEPT ![w] = TRUE]
    /\ seed' = [seed EXCEPT ![w] = Seed(args.global_seed, w, world_size)]
    /\ Goto(w, "assert_cfg")
    /\ UNCHANGED <<world_size, args, destroyed, skip, bcast, barrierCalls, plan, iter,
                   i, total, samplerCalls, files, written, deleted, dirCreated,
                   npzExists, npzAtCheck, npzCalls, samples, npzSaved>>

\* Lines 142-145: the guidance scale assertion; the skip tensor starts False.
AssertCfgScale(w) ==
    /\ pc[w] = "assert_cfg"
    /\ IF CfgScaleOk(args.cfg_scale)
         THEN Goto(w, IF w = 0 THEN "skip_check" ELSE "broadcast")
         ELSE Abort(w, 142)
    /\ skip' = [skip EXCEPT ![w] = FALSE]
    /\ UNCHANGED <<world_size, args, seed, joined, destroyed, bcast, barrierCalls, plan,
                   iter, i, total, samplerCalls, files, written, deleted, dirCreated,
                   npzExists, npzAtCheck, npzCalls, samples, npzSaved>>

\* Lines 146-152: rank 0 decides to skip when the archive exists, and creates
\* the sample folder otherwise.
SkipCheck(w) ==
    /\ pc[w] = "skip_check"
    /\ w = 0
    /\ npzAtCheck' = <<npzExists>>
    /\ IF npzExists
         THEN /\ skip' = [skip EXCEPT ![w] = TRUE]
              /\ UNCHANGED dirCreated
         ELSE /\ dirCreated' = TRUE
              /\ UNCHANGED skip
    /\ Goto(w, "broadcast")
    /\ UNCHANGED <<world_size, args, seed, joined, destroyed, bcast, barrierCalls, plan,
                   iter, i, total, samplerCalls, files, written, deleted, npzExists,
                   npzCalls, samples, npzSaved>>

\* Line 155: rank 0 sends its flag, every other rank receives it.
Broadcast(w) ==
    /\ pc[w] = "broadcast"
    /\ IF w = 0
         THEN /\ bcast' = <<skip[w]>>
              /\ UNCHANGED skip
         ELSE /\ bcast # <<>>
              /\ skip' = [skip EXCEPT ![w] = Received(w)]
              /\ UNCHANGED bcast
    /\ Goto(w, "branch")
    /\ UNCHANGED <<world_size, args, seed, joined, destroyed, barrierCalls, plan, iter,
                   i, total, samplerCalls, files, written, deleted, dirCreated,
                   npzExists, npzAtCheck, npzCalls, samples, npzSaved>>

\* Lines 156-158: on skip, leave the group and return.
\* (SkipReturnNoDestroy: the return without line 157)
SkipReturnNoDestroy(w) ==
    /\ pc[w] = "branch"
    /\ skip[w]
    /\ Goto(w, "done")
    /\ UNCHANGED <<world_size, args, seed, joined, destroyed, skip, bcast, barrierCalls,
                   plan, iter, i, total, samplerCalls, files, written, deleted,
                   dirCreated, npzExists, npzAtCheck, npzCalls, samples, npzSaved>>

SkipReturn(w) ==
    /\ pc[w] = "branch"
    /\ skip[w]
    /\ destroyed' = [destroyed EXCEPT ![w] = TRUE]
    /\ Goto(w, "done")
    /\ UNCHANGED <<world_size, args, seed, joined, skip, bcast, barrierCalls, plan,
                   iter, i, total, samplerCalls, files, written, deleted, dirCreated,
                   npzExists, npzAtCheck, npzCalls, samples, npzSaved>>

\* Lines 156, 159: otherwise call the first barrier.
NoSkip(w) ==
    /\ pc[w] = "branch"
    /\ ~skip[w]
    /\ barrierCalls' = [barrierCalls EXCEPT ![w] = @ + 1]
    /\ Goto(w, "wait1")
    /\ UNCHANGED <<world_size, args, seed, joined, destroyed, skip, bcast, plan, iter,
                   i, total, samplerCalls, files, written, deleted, dirCreated,
                   npzExists, npzAtCheck, npzCalls, samples, npzSaved>>

\* Lines 159-176: the first barrier returns; the batch plan and its assertions.
Plan(w) ==
    /\ pc[w] = "wait1"
    /\ BarrierReleased(w)
    /\ LET requested == args.num_fid_samples
           n == args.pproc_batch_size
       IN /\ plan' = [plan EXCEPT ![w] =
                        [total_samples |-> TotalSamples(requested, n, world_size),
                         samples_needed_this_gpu |->
                             SamplesNeededThisGpu(requested, n, world_size),
                         iterations |-> Iterations(requested, n, world_size)]]
          /\ IF TotalSamples(requested, n, world_size) % world_size # 0
               THEN Abort(w, 170)
               ELSE IF SamplesNeededThisGpu(requested, n, world_size) % n # 0
                      THEN Abort(w, 172)
                      ELSE Goto(w, "loop")
    /\ iter' = [iter EXCEPT ![w] = 0]
    /\ total' = [total EXCEPT ![w] = 0]
    /\ UNCHANGED <<world_size, args, seed, joined, destroyed, skip, bcast, barrierCalls,
                   i, samplerCalls, files, written, deleted, dirCreated, npzExists,
                   npzAtCheck, npzCalls, samples, npzSaved>>

\* Lines 177-208: one iteration up to the decoded batch: the Heun assertion,
\* the choice of the sampler, the sampler and the decoder.
LoopIter(w) ==
    /\ pc[w] = "loop"
    /\ iter[w] < plan[w].iterations
    /\ IF ~HeunOk(args.heun, args.mode)
         THEN Abort(w, 182) /\ UNCHANGED <<samplerCalls, i>>
         ELSE IF ~ModeSupported(args.mode)
                THEN Abort(w, 202) /\ UNCHANGED <<samplerCalls, i>>
                ELSE /\ samplerCalls' = [samplerCalls EXCEPT ![w] = @ + 1]
                     /\ i' = [i EXCEPT ![w] = 0]
                     /\ Goto(w, "save")
    /\ UNCHANGED <<world_size, args, seed, joined, destroyed, skip, bcast, barrierCalls,
                   plan, iter, total, files, written, deleted, dirCreated, npzExists,
                   npzAtCheck, npzCalls, samples, npzSaved>>

\* Lines 211-214: save one image of the batch under its index; after the last
\* one the running total advances by the global batch size.
SaveImage(w) ==
    /\ pc[w] = "save"
    /\ LET index == SampleIndex(i[w], w, total[w], world_size)
       IN /\ files' = files \cup {index}
          /\ written' = written (+) SetToBag({index})
    /\ IF i[w] + 1 < args.pproc_batch_size
         THEN /\ i' = [i EXCEPT ![w] = @ + 1]
              /\ Goto(w, "save")
              /\ UNCHANGED <<total, iter>>
         ELSE /\ total' = [total EXCEPT ![w] =
                             @ + GlobalBatchSize(args.pproc_batch_size, world_size)]
              /\ iter' = [iter EXCEPT ![w] = @ + 1]
              /\ Goto(w, "loop")
              /\ UNCHANGED i
    /\ UNCHANGED <<world_size, args, seed, joined, destroyed, skip, bcast, barrierCalls,
                   plan, samplerCalls, deleted, dirCreated, npzExists, npzAtCheck,
                   npzCalls, samples, npzSaved>>

\* Line 213: Image.save raises (an I/O failure), which ends the worker.
SaveFails(w) ==
    /\ pc[w] = "save"
    /\ Abort(w, 213)
    /\ UNCHANGED <<world_size, args, seed, joined, destroyed, skip, bcast, barrierCalls,
                   plan, iter, i, total, samplerCalls, files, written, deleted,
                   dirCreated, npzExists, npzAtCheck, npzCalls, samples, npzSaved>>

\* Lines 177, 217: the loop is over; call the second barrier.
LoopExit(w) ==
    /\ pc[w] = "loop"
    /\ iter[w] >= plan[w].iterations
    /\ barrierCalls' = [barrierCalls EXCEPT ![w] = @ + 1]
    /\ Goto(w, "wait2")
    /\ UNCHANGED <<world_size, args, seed, joined, destroyed, skip, bcast, plan, iter,
                   i, total, samplerCalls, files, written, deleted, dirCreated,
                   npzExists, npzAtCheck, npzCalls, samples, npzSaved>>

\* Lines 217-221: the second barrier returns; rank 0 calls
\* create_npz_from_sample_folder, every other rank calls the third barrier.
AfterLoop(w) ==
    /\ pc[w] = "wait2"
    /\ BarrierReleased(w)
    /\ IF w = 0
         THEN /\ npzCalls' = npzCalls + 1
              /\ samples' = <<>>
              /\ Goto(w, "npz")
              /\ UNCHANGED barrierCalls
         ELSE /\ barrierCalls' = [barrierCalls EXCEPT ![w] = @ + 1]
              /\ Goto(w, "wait3")
              /\ UNCHANGED <<npzCalls, samples>>
    /\ UNCHANGED <<world_size, args, seed, joined, destroyed, skip, bcast, plan, iter,
                   i, total, samplerCalls, files, written, deleted, dirCreated,
                   npzExists, npzAtCheck, npzSaved>>

\* Lines 40-43: open the next image; Image.open raises when the file is absent.
NpzOpen(w) ==
    /\ pc[w] = "npz"
    /\ LET k == Len(samples)
       IN /\ k < NpzNum(args, world_size)
          /\ IF k \in files
               THEN samples' = Append(samples, k) /\ Goto(w, "npz")
               ELSE Abort(w, 41) /\ UNCHANGED samples
    /\ UNCHANGED <<world_size, args, seed, joined, destroyed, skip, bcast, barrierCalls,
                   plan, iter, i, total, samplerCalls, files, written, deleted,
                   dirCreated, npzExists, npzAtCheck, npzCalls, npzSaved>>

\* Lines 44-49, 220-221: stack the images (np.stack raises on an empty list),
\* write the archive, return, and call the third barrier.
NpzSave(w) ==
    /\ pc[w] = "npz"
    /\ Len(samples) >= NpzNum(args, world_size)
    /\ IF Len(samples) = 0
         THEN Abort(w, 44) /\ UNCHANGED <<npzExists, npzSaved, barrierCalls>>
         ELSE /\ npzExists' = TRUE
              /\ npzSaved' = TRUE
              /\ barrierCalls' = [barrierCalls EXCEPT ![w] = @ + 1]
              /\ Goto(w, "wait3")
    /\ UNCHANGED <<world_size, args, seed, joined, destroyed, skip, bcast, plan, iter,
                   i, total, samplerCalls, files, written, deleted, dirCreated,
                   npzAtCheck, npzCalls, samples>>

\* Lines 221-222: the third barrier returns; leave the group.
\* (DestroyNoBarrier: line 222 without the barrier of line 221)
DestroyNoBarrier(w) ==
    /\ pc[w] = "wait3"
    /\ destroyed' = [destroyed EXCEPT ![w] = TRUE]
    /\ Goto(w, "done")
    /\ UNCHANGED <<world_size, args, seed, joined, skip, bcast, barrierCalls, plan,
                   iter, i, total, samplerCalls, files, written, deleted, dirCreated,
                   npzExists, npzAtCheck, npzCalls, samples, npzSaved>>

Destroy(w) ==
    /\ pc[w] = "wait3"
    /\ BarrierReleased(w)
    /\ destroyed' = [destroyed EXCEPT ![w] = TRUE]
    /\ Goto(w, "done")
    /\ UNCHANGED <<world_size, args, seed, joined, skip, bcast, barrierCalls, plan,
                   iter, i, total, samplerCalls, files, written, deleted, dirCreated,
                   npzExists, npzAtCheck, npzCalls, samples, npzSaved>>

\* The sample folder is on a file system that other programs can change: an
\* image file can be gone by the time line 41 opens it.  Only the archive
\* build reads the files back, so a deletion is modelled while it runs.
DeleteFile ==
    /\ pc[0] = "npz"
    /\ deleted < MaxDeleted
    /\ \E k \in files : files' = files \ {k}
    /\ deleted' = deleted + 1
    /\ UNCHANGED <<world_size, args, pc, seed, joined, destroyed, skip, bcast,
                   barrierCalls, plan, iter, i, total, samplerCalls, written,
                   dirCreated, npzExists, npzAtCheck, npzCalls, samples, npzSaved,
                   abortedAt>>

\* The steps of worker w that the worker takes by itself.
Step(w) ==
    \/ Join(w)
    \/ AssertCfgScale(w)
    \/ SkipCheck(w)
    \/ Broadcast(w)
    \/ SkipReturn(w)
    \/ NoSkip(w)
    \/ Plan(w)
    \/ LoopIter(w)
    \/ SaveImage(w)
    \/ LoopExit(w)
    \/ AfterLoop(w)
    \/ NpzOpen(w)
    \/ NpzSave(w)
    \/ Destroy(w)

Next ==
    \/ \E w \in Workers : Join(w)
    \/ \E w \in Workers : AssertCfgScale(w)
    \/ \E w \in Workers : SkipCheck(w)
    \/ \E w \in Workers : Broadcast(w)
    \/ \E w \in Workers : SkipReturn(w)
    \/ \E w \in Workers : NoSkip(w)
    \/ \E w \in Workers : Plan(w)
    \/ \E w \in Workers : LoopIter(w)
    \/ \E w \in Workers : SaveImage(w)
    \/ \E w \in Workers : SaveFails(w)
    \/ \E w \in Workers : LoopExit(w)
    \/ \E w \in Workers : AfterLoop(w)
    \/ \E w \in Workers : NpzOpen(w)
    \/ \E w \in Workers : NpzSave(w)
    \/ \E w \in Workers : Destroy(w)
    \/ DeleteFile

Spec == Init /\ [][Next]_vars

\* The seed derivation alone, and the batch plan alone.
SeedNext == \E w \in Workers : Join(w)
SeedSpec == SeedInit /\ [][SeedNext]_vars

PlanNext == \E w \in Workers : Plan(w)
PlanSpec == PlanInit /\ [][PlanNext]_vars

\* Every worker process keeps running while it has a step to take; an I/O
\* failure or a deleted file is never forced.
FairSpec ==
    Spec /\ \A w \in 0 .. MaxWorld - 1 : WF_vars(w \in Workers /\ Step(w))

----------------------------------------------------------------------------
\* Shorthands of the properties.

Requested == args.num_fid_samples
BatchSize == args.pproc_batch_size
Total == TotalSamples(Requested, BatchSize, world_size)
WrittenSet == BagToSet(written)
\* The worker has left the sampling loop and called the post-loop barrier.
FinishedWriting(w) == barrierCalls[w] >= 2
\* The worker has taken the skip branch / the other branch of line 156.
TookSkip(w) == pc[w] = "done" /\ barrierCalls[w] = 0
TookNoSkip(w) == barrierCalls[w] >= 1
Terminated(w) == pc[w] \in {"done", "aborted"}
BadCfgScale == args.cfg_scale < 2
BadHeun == args.heun /\ args.mode = "sde"

----------------------------------------------------------------------------
\* C1: no index is ever saved twice, every saved index is in
\* 0 .. total_samples - 1, and once every worker has left the sampling loop the
\* saved indices are exactly 0 .. total_samples - 1.
IndexBijection ==
    /\ \A k \in WrittenSet : CopiesIn(k, written) = 1
    /\ WrittenSet \subseteq 0 .. Total - 1
    /\ (\A w \in Workers : FinishedWriting(w)) => WrittenSet = 0 .. Total - 1

IndexBijectionWitness ==
    /\ world_size >= 2
    /\ BatchSize >= 2
    /\ \A w \in Workers : FinishedWriting(w) /\ iter[w] >= 2
    /\ WrittenSet = 0 .. Total - 1

\* C2: the batch plan: total_samples is the smallest multiple of n * world_size
\* that is >= the requested count, samples_needed_this_gpu is total_samples /
\* world_size and a multiple of n, iterations is samples_needed_this_gpu / n,
\* neither assertion fails; 100 requested, n = 10, world_size = 4 give 120, 30, 3.
PlanCorrect ==
    \A w \in Workers : pc[w] # "wait1" =>
        LET gbs == BatchSize * world_size
        IN /\ pc[w] # "aborted"
           /\ plan[w].total_samples % gbs = 0
           /\ plan[w].total_samples >= Requested
           /\ plan[w].total_samples - gbs < Requested
           /\ plan[w].samples_needed_this_gpu * world_size = plan[w].total_samples
           /\ plan[w].samples_needed_this_gpu % BatchSize = 0
           /\ plan[w].iterations * BatchSize = plan[w].samples_needed_this_gpu
           /\ (Requested = 100 /\ BatchSize = 10 /\ world_size = 4) =>
                  plan[w] = [total_samples |-> 120,
                             samples_needed_this_gpu |-> 30,
                             iterations |-> 3]

PlanCorrectWitness ==
    /\ Requested = 100 /\ BatchSize = 10 /\ world_size = 4
    /\ \A w \in Workers : pc[w] = "loop" /\ plan[w].total_samples = 120

\* C3: no image is saved before rank 0 has found the archive absent and created
\* the sample folder; create_npz_from_sample_folder is called at most once, by
\* rank 0 only, and only after every worker has left the sampling loop with
\* all of its images saved.
PhasesOrdered ==
    /\ written # EmptyBag => (npzAtCheck = <<FALSE>> /\ dirCreated)
    /\ \A w \in Workers : samplerCalls[w] > 0 => (npzAtCheck = <<FALSE>> /\ dirCreated)
    /\ npzCalls <= 1
    /\ \A w \in Workers : pc[w] = "npz" => w = 0
    /\ npzCalls >= 1 =>
          /\ \A w \in Workers : FinishedWriting(w) /\ iter[w] >= plan[w].iterations
          /\ WrittenSet = 0 .. Total - 1

PhasesOrderedWitness ==
    /\ world_size >= 2
    /\ npzCalls = 1
    /\ pc[0] = "npz"
    /\ written # EmptyBag

\* C4: when rank 0 found the archive, no worker takes the branch that goes on,
\* the sample folder is not created, no image is saved and no barrier is
\* called; when it did not, no worker takes the skip branch; no two workers
\* take different branches.
SkipAgreement ==
    /\ npzAtCheck = <<TRUE>> =>
          /\ \A w \in Workers : ~TookNoSkip(w) /\ barrierCalls[w] = 0
          /\ \A w \in Workers : pc[w] = "branch" => skip[w]
          /\ ~dirCreated
          /\ written = EmptyBag
    /\ npzAtCheck = <<FALSE>> =>
          /\ \A w \in Workers : ~TookSkip(w)
          /\ \A w \in Workers : pc[w] = "branch" => ~skip[w]
    /\ \A v, w \in Workers : ~(TookSkip(v) /\ TookNoSkip(w))

SkipAgreementWitness ==
    /\ world_size >= 2
    /\ npzAtCheck = <<TRUE>>
    /\ \A w \in Workers : TookSkip(w)

\* C5: the archive build reads the files 0, 1, ... in increasing order and no
\* more than the requested count of them; it writes the archive only after
\* reading all of the requested count; when a file is absent it fails at
\* Image.open with no archive written.
ArchiveReadsRequested ==
    /\ \A k \in 1 .. Len(samples) : samples[k] = k - 1
    /\ Len(samples) <= Requested \/ Len(samples) = 0
    /\ npzSaved => (Len(samples) = Requested /\ npzCalls = 1)
    /\ abortedAt[0] = 41 =>
          /\ ~npzSaved
          /\ ~npzExists
          /\ Len(samples) < Requested
          /\ Len(samples) \notin files

ArchiveReadsRequestedWitness ==
    /\ abortedAt[0] = 41
    /\ Len(samples) >= 1
    /\ Requested < Total

\* C6 as stated: no worker that joined the group terminates without having
\* called destroy_process_group.
TeardownOnEveryExit ==
    \A w \in Workers : (joined[w] /\ Terminated(w)) => destroyed[w]

\* C6 amended: a worker that returns from main (on skip or at the end) has
\* called destroy_process_group; a worker ended by an exception has not.
TeardownOnReturn ==
    \A w \in Workers :
        /\ pc[w] = "done" => (joined[w] /\ destroyed[w])
        /\ pc[w] = "aborted" => (joined[w] /\ ~destroyed[w])

TeardownOnReturnWitness ==
    /\ world_size >= 2
    /\ \A w \in Workers : TookSkip(w) /\ destroyed[w]

\* C7 as stated: with cfg_scale < 1.0, or sde with heun, every worker aborts:
\* none returns from main or gets past the sampling loop; none calls the
\* sampler or saves an image.
RejectedByAbort ==
    (BadCfgScale \/ BadHeun) =>
        /\ \A w \in Workers : pc[w] \notin {"done", "wait2", "npz", "wait3"}
        /\ \A w \in Workers : samplerCalls[w] = 0
        /\ written = EmptyBag

\* C7 amended: with cfg_scale < 1.0 no worker gets past line 142; with sde and
\* heun no worker calls the sampler or saves an image, and a worker whose plan
\* has at least one iteration aborts at line 182 in its first one.
RejectedBeforeSampling ==
    /\ BadCfgScale =>
          /\ \A w \in Workers : pc[w] \in {"join", "assert_cfg", "aborted"}
          /\ \A w \in Workers : pc[w] = "aborted" => abortedAt[w] = 142
          /\ bcast = <<>> /\ npzAtCheck = <<>> /\ ~dirCreated
    /\ (BadCfgScale \/ BadHeun) =>
          /\ \A w \in Workers : samplerCalls[w] = 0 /\ pc[w] # "save"
          /\ written = EmptyBag /\ files = {}
    /\ (BadHeun /\ ~BadCfgScale) =>
          \A w \in Workers :
              plan[w].iterations > 0 =>
                  /\ pc[w] \in {"loop", "aborted"}
                  /\ pc[w] = "aborted" => abortedAt[w] = 182

RejectedBeforeSamplingWitness ==
    /\ BadHeun /\ ~BadCfgScale
    /\ world_size >= 2
    /\ \A w \in Workers : abortedAt[w] = 182

\* C8: in a run that is not skipped, a worker has called
\* destroy_process_group only when every worker has left the sampling loop
\* with all images saved and rank 0 has written the archive.
NoEarlyTeardown ==
    \A w \in Workers : (destroyed[w] /\ npzAtCheck = <<FALSE>>) =>
        /\ \A v \in Workers : FinishedWriting(v) /\ iter[v] >= plan[v].iterations
        /\ WrittenSet = 0 .. Total - 1
        /\ npzSaved
        /\ pc[0] \in {"wait3", "done"}

NoEarlyTeardownWitness ==
    /\ world_size >= 2
    /\ npzAtCheck = <<FALSE>>
    /\ \E w \in Workers : w # 0 /\ destroyed[w] /\ pc[0] = "wait3"

\* C9: under weak fairness of every worker, a run in which no worker is ended
\* by an exception reaches the state where every worker has called
\* destroy_process_group and returned.
AllReturned == \A w \in Workers : pc[w] = "done" /\ destroyed[w]
SomeAborted == \E w \in Workers : pc[w] = "aborted"
Terminates == <>(AllReturned \/ SomeAborted)

TerminatesWitness ==
    /\ world_size >= 2
    /\ AllReturned
    /\ npzSaved
    /\ \A w \in Workers : barrierCalls[w] = 3

\* C10: two distinct ranks of one run never get the same seed.
SeedsDistinct ==
    \A v, w \in Workers :
        (v # w /\ joined[v] /\ joined[w]) => seed[v] # seed[w]

SeedsDistinctWitness ==
    /\ world_size >= 3
    /\ args.global_seed >= 1
    /\ \A w \in Workers : joined[w] /\ seed[w] = Seed(args.global_seed, w, world_size)

====
